---- MODULE Spec2Model ----
(***************************************************************************)
(* The tagging tools of src/tagging/tools.py: apply_tags_to_element,       *)
(* create_context_info, tag_statement_section and validate_tagged_data.    *)
(*                                                                         *)
(* The tools are functions of their arguments; the taxonomy registry       *)
(* (context.deps) is one of the arguments.  A state holds one call: the    *)
(* tool, its arguments, and, once the tool has run, what it returned.      *)
(*                                                                         *)
(* Python values are modelled as follows.                                  *)
(*   str        a sequence of one-character strings                        *)
(*   dict       with data as keys: a sequence of [key, ...] entries in     *)
(*              insertion order, keys distinct; with the literal keys of   *)
(*              the code: a record                                         *)
(*   list       a sequence                                                 *)
(*   date       [year, month, day]                                         *)
(***************************************************************************)
EXTENDS Integers, Sequences, FiniteSets, TLC

\* pc     "call" before the tool has run, "return" after
\* op     the tool that is called
\* deps   context.deps: field_tags, statement_tags, mandatory_fields
\* args   the other arguments of the call
\* ret    what the call returned
\* prior  the arguments and the result of an earlier call of create_context_info
VARIABLES pc, op, deps, args, ret, prior

vars == <<pc, op, deps, args, ret, prior>>

(***************************************************************************)
(* Bounds of the model.                                                    *)
(***************************************************************************)
MaxKeys == 2          \* entries of field_tags
MaxMandatory == 2     \* entries of mandatory_fields
MaxStatementTags == 2 \* entries of statement_tags
MaxDims == 2          \* entries of a dimensions mapping
MaxFields == 2        \* entries of one section
MaxSections == 2      \* sections of a document

(***************************************************************************)
(* Strings.                                                                *)
(***************************************************************************)

\* The characters the model uses, in ascending code point order.
Chars == <<"-", "0", "1", "2", "3", "4", "5", "6", "7", "8", "9",
           "A", "B", "_", "a", "b", "c", "d", "e", "g", "i", "l", "m",
           "n", "o", "p", "r", "s", "t", "x">>

\* ord(c), up to an order-preserving renumbering.
CodePoint(c) == CHOOSE i \in 1..Len(Chars) : Chars[i] = c

\* str.lower() on one character.
LowerChar(c) == CASE c = "A" -> "a" [] c = "B" -> "b" [] OTHER -> c

\* str.lower()
Lower(s) == [i \in 1..Len(s) |-> LowerChar(s[i])]

\* s in t, for two strings: s occurs in t as a contiguous substring.
Contains(t, s) ==
    \E k \in 0..(Len(t) - Len(s)) : \A i \in 1..Len(s) : t[k + i] = s[i]

\* s < t for two strings: Python compares by code point, a proper prefix first.
RECURSIVE StrLess(_, _)
StrLess(s, t) ==
    IF s = <<>> THEN t # <<>>
    ELSE IF t = <<>> THEN FALSE
    ELSE IF s[1] # t[1] THEN CodePoint(s[1]) < CodePoint(t[1])
    ELSE StrLess(Tail(s), Tail(t))

\* sep.join(parts)
RECURSIVE Join(_, _)
Join(sep, parts) ==
    IF parts = <<>> THEN <<>>
    ELSE IF Len(parts) = 1 THEN parts[1]
    ELSE parts[1] \o sep \o Join(sep, Tail(parts))

(***************************************************************************)
(* Dictionaries keyed by data.                                             *)
(***************************************************************************)

\* key in d
HasKey(d, key) == \E i \in 1..Len(d) : d[i].key = key

\* the entry of d[key]
Entry(d, key) == d[CHOOSE i \in 1..Len(d) : d[i].key = key]

\* d[key] = entry: an existing key keeps its place, a new key goes last.
SetItem(d, entry) ==
    IF HasKey(d, entry.key)
    THEN [i \in 1..Len(d) |-> IF d[i].key = entry.key THEN entry ELSE d[i]]
    ELSE Append(d, entry)

DistinctKeys(d) == \A i, j \in 1..Len(d) : d[i].key = d[j].key => i = j

\* The sequences over S of length at most n.
SeqsUpTo(S, n) == UNION {[1..k -> S] : k \in 0..n}

(***************************************************************************)
(* Tag definitions and the registry.                                       *)
(***************************************************************************)

\* A tag definition object, of the registry.
Tag(name, period) ==
    [cls |-> "TagDefinition", element_name |-> name, period_type |-> period]

\* tag.dict(): the tag's fields as a plain mapping.
TagDict(tag) ==
    [element_name |-> tag.element_name, period_type |-> tag.period_type]

\* [tag.dict() for tag in tags]
TagDicts(tags) == [i \in 1..Len(tags) |-> TagDict(tags[i])]

\* The value of a variable that holds nothing yet.
NoValue == [none |-> TRUE]

\* The tag definitions of the model's registries.
TagAb == Tag(<<"a", "b">>, "instant")

TagA == Tag(<<"A">>, "duration")

TagB == Tag(<<"b">>, "duration")

\* The tag sequences a field may carry (the first tag is the preferred one).
TagSeqs == {<<>>, <<TagAb>>, <<TagB, TagAb>>}

\* field_tags: field name -> tag sequence, over the field names in names.
FieldTagIndexes(names) ==
    {d \in SeqsUpTo([key : names, tags : TagSeqs], MaxKeys) : DistinctKeys(d)}

\* mandatory_fields: field name -> bool, over the field names in names.
MandatoryIndexes(names) ==
    {d \in SeqsUpTo([key : names, flag : BOOLEAN], MaxMandatory) : DistinctKeys(d)}

\* Python values by type: an int, a list of items, a dict keyed by data (a
\* sequence of entries), a dict with the literal keys of the code (a record).
PyInt(n) == [int |-> n]

PyList(items) == [list |-> items]

PyDict(entries) == [dict |-> entries]

PyRec(fields) == [rec |-> fields]

\* Scalar values.
Scalars == {PyInt(1), PyInt(2)}

(***************************************************************************)
(* apply_tags_to_element                                                   *)
(***************************************************************************)

\* A message: the text of the f-string and the name it is formatted with.
Message(text, name) == [text |-> text, name |-> name]

\* A resolver that never takes the exact branch.
ExactMatchNever(field_tags, element_name) == FALSE

\* element_name in context.deps.field_tags
ExactMatch(field_tags, element_name) == HasKey(field_tags, element_name)

\* The substring test of the fuzzy matching, on the lowered names.
Similar(element_name, field_name) ==
    \/ Contains(Lower(field_name), Lower(element_name))
    \/ Contains(Lower(element_name), Lower(field_name))

\* The fuzzy loop from entry i on: the entry it breaks at, 0 when it ends
\* without a break.
RECURSIVE SimilarFrom(_, _, _)
SimilarFrom(field_tags, element_name, i) ==
    IF i > Len(field_tags) THEN 0
    ELSE IF Similar(element_name, field_tags[i].key) THEN i
    ELSE SimilarFrom(field_tags, element_name, i + 1)

\* The fuzzy loop without its break: the last similar entry wins.
LastSimilar(field_tags, element_name) ==
    LET hits == {i \in 1..Len(field_tags) : Similar(element_name, field_tags[i].key)}
    IN  IF hits = {} THEN 0 ELSE CHOOSE i \in hits : \A j \in hits : j <= i

\* The fuzzy loop over field_tags.items().
FirstSimilar(field_tags, element_name) == SimilarFrom(field_tags, element_name, 1)

\* apply_tags_to_element(context, element_name, value, statement_type,
\* is_instant); statement_type and is_instant are not read.
apply_tags_to_element(context, element_name, value) ==
    LET field_tags == context.field_tags
        mandatory_fields == context.mandatory_fields
        exact == ExactMatch(field_tags, element_name)
        k == IF exact THEN 0 ELSE FirstSimilar(field_tags, element_name)
        tags == IF exact THEN Entry(field_tags, element_name).tags
                ELSE IF k > 0 THEN field_tags[k].tags
                ELSE <<>>
        found == IF exact
                 THEN <<Message("Found exact tag match for {}", element_name)>>
                 ELSE <<Message("No exact tag match found for {}", element_name)>>
                      \o (IF k > 0
                          THEN <<Message("Using similar tag: {}", field_tags[k].key)>>
                          ELSE <<>>)
        is_mandatory == IF HasKey(mandatory_fields, element_name)
                        THEN Entry(mandatory_fields, element_name).flag
                        ELSE FALSE
        note == IF is_mandatory
                THEN <<Message("Note: {} is a mandatory field", element_name)>>
                ELSE <<>>
    IN  [element_name |-> element_name,
         value |-> value,
         tags |-> TagDicts(tags),
         is_mandatory |-> is_mandatory,
         messages |-> found \o note]

\* The field names of the resolver's calls: "", "a", "A", "ab", "b", "Ba".
ResolverNames == {<<>>, <<"a">>, <<"A">>, <<"a", "b">>, <<"b">>, <<"B", "a">>}

\* The names of the mandatory index in the resolver's calls.
ResolverMandatoryNames == {<<"a">>, <<"b">>}

InitResolve ==
    /\ pc = "call"
    /\ op = "apply_tags_to_element"
    /\ deps \in [field_tags : FieldTagIndexes(ResolverNames),
                 statement_tags : {<<>>},
                 mandatory_fields : MandatoryIndexes(ResolverMandatoryNames)]
    /\ args \in [element_name : ResolverNames, value : Scalars]
    /\ ret = NoValue
    /\ prior = NoValue

ApplyTagsToElement ==
    /\ pc = "call"
    /\ op = "apply_tags_to_element"
    /\ ret' = apply_tags_to_element(deps, args.element_name, args.value)
    /\ pc' = "return"
    /\ UNCHANGED <<op, deps, args, prior>>

SpecResolve == InitResolve /\ [][ApplyTagsToElement]_vars

\* The call of apply_tags_to_element has returned.
ResolveReturned == pc = "return" /\ op = "apply_tags_to_element"

\* Case-insensitively, key contains name or name contains key.
Compatible(key, name) ==
    LET k == Lower(key)
        n == Lower(name)
    IN  \/ \E off \in 0..(Len(k) - Len(n)) : SubSeq(k, off + 1, off + Len(n)) = n
        \/ \E off \in 0..(Len(n) - Len(k)) : SubSeq(n, off + 1, off + Len(k)) = k

\* C1: when the field name is verbatim a key of field_tags, the returned
\* tags are that key's tags, in order, and the messages hold the exact-match
\* message, whatever other keys come earlier.
C1_ExactMatch ==
    ResolveReturned =>
        \A i \in 1..Len(deps.field_tags) :
            deps.field_tags[i].key = args.element_name =>
                /\ Len(ret.tags) = Len(deps.field_tags[i].tags)
                /\ \A j \in 1..Len(ret.tags) :
                       ret.tags[j] = TagDict(deps.field_tags[i].tags[j])
                /\ \E m \in 1..Len(ret.messages) :
                       ret.messages[m] =
                           Message("Found exact tag match for {}", args.element_name)

\* C1's case: the exact key is not the first key, and the first key is
\* substring-compatible with the field name and carries other tags.
C1_Witness ==
    /\ ResolveReturned
    /\ Len(deps.field_tags) = 2
    /\ deps.field_tags[2].key = args.element_name
    /\ Compatible(deps.field_tags[1].key, args.element_name)
    /\ deps.field_tags[1].tags # deps.field_tags[2].tags
    /\ deps.field_tags[2].tags # <<>>

\* C2: when the field name is no key of field_tags, the returned tags are
\* those of the first compatible key in iteration order; with no compatible
\* key the tags are empty, the messages are not, and the call has returned a
\* result.
C2_FuzzyFallback ==
    (ResolveReturned /\ \A i \in 1..Len(deps.field_tags) :
                            deps.field_tags[i].key # args.element_name) =>
        LET cands == {i \in 1..Len(deps.field_tags) :
                          Compatible(deps.field_tags[i].key, args.element_name)}
        IN  /\ ret.element_name = args.element_name
            /\ Len(ret.messages) > 0
            /\ IF cands = {}
               THEN ret.tags = <<>>
               ELSE LET first == CHOOSE i \in cands : \A j \in cands : i <= j
                    IN  /\ Len(ret.tags) = Len(deps.field_tags[first].tags)
                        /\ \A j \in 1..Len(ret.tags) :
                               ret.tags[j] = TagDict(deps.field_tags[first].tags[j])

\* C2's case: no exact key, two compatible keys with different tags.
C2_Witness ==
    /\ ResolveReturned
    /\ Len(deps.field_tags) = 2
    /\ \A i \in 1..2 : deps.field_tags[i].key # args.element_name
    /\ \A i \in 1..2 : Compatible(deps.field_tags[i].key, args.element_name)
    /\ deps.field_tags[1].tags # deps.field_tags[2].tags
    /\ ret.tags # <<>>

(***************************************************************************)
(* create_context_info                                                     *)
(***************************************************************************)

\* An optional argument: <<>> is None, <<v>> is the value v.
None == <<>>

Some(v) == <<v>>

Digits == <<"0", "1", "2", "3", "4", "5", "6", "7", "8", "9">>

\* n in decimal, zero-padded to width digits (%Y of a four-digit year, %m, %d).
RECURSIVE Padded(_, _)
Padded(n, width) ==
    IF width = 0 THEN <<>>
    ELSE Padded(n \div 10, width - 1) \o <<Digits[(n % 10) + 1]>>

\* d.strftime('%Y%m%d')
Strftime(d) == Padded(d.year, 4) \o Padded(d.month, 2) \o Padded(d.day, 2)

\* d.isoformat()
Isoformat(d) ==
    Padded(d.year, 4) \o <<"-">> \o Padded(d.month, 2) \o <<"-">> \o Padded(d.day, 2)

\* A period part that is always the instant form.
PeriodPartInstantOnly(period_start, period_end) == <<"i">> \o Strftime(period_end)

\* period_part
PeriodPart(period_start, period_end) ==
    IF period_start = None
    THEN <<"i">> \o Strftime(period_end)
    ELSE <<"d">> \o Strftime(period_start[1]) \o <<"t", "o">> \o Strftime(period_end)

\* (name, value) < (name', value'), as Python compares two tuples of strings.
ItemLess(a, b) ==
    \/ StrLess(a.key, b.key)
    \/ a.key = b.key /\ StrLess(a.value, b.value)

\* item put at its place in the sorted list items.
RECURSIVE Insert(_, _)
Insert(item, items) ==
    IF items = <<>> THEN <<item>>
    ELSE IF ItemLess(item, items[1]) THEN <<item>> \o items
    ELSE <<items[1]>> \o Insert(item, Tail(items))

RECURSIVE InsertAll(_, _)
InsertAll(items, sorted) ==
    IF items = <<>> THEN sorted
    ELSE InsertAll(Tail(items), Insert(items[1], sorted))

\* The items in insertion order: an iteration that forgets to sort.
Unsorted(items) == items

\* sorted(dimensions.items())
Sorted(items) == InsertAll(items, <<>>)

\* dim_parts: f"{dim_name}-{dim_value}" for each item of the sorted items.
DimParts(items) ==
    LET sorted == Sorted(items)
    IN  [i \in 1..Len(sorted) |-> sorted[i].key \o <<"-">> \o sorted[i].value]

\* if dimensions: neither None nor an empty mapping
Truthy(dimensions) == dimensions # None /\ dimensions[1] # <<>>

\* context_id
ContextId(period_end, period_start, is_consolidated, dimensions) ==
    LET base == <<"c", "t", "x", "_">> \o PeriodPart(period_start, period_end)
                \o <<"_">> \o (IF is_consolidated THEN <<"c">> ELSE <<"s">>)
        dim_parts == IF Truthy(dimensions) THEN DimParts(dimensions[1]) ELSE <<>>
    IN  IF dim_parts # <<>>
        THEN base \o <<"_">> \o Join(<<"_">>, dim_parts)
        ELSE base

\* create_context_info(context, entity_name, entity_identifier, period_end,
\* period_start, is_consolidated, dimensions); context is not read.
create_context_info(a) ==
    [id |-> ContextId(a.period_end, a.period_start, a.is_consolidated, a.dimensions),
     entity |-> [name |-> a.entity_name, identifier |-> a.entity_identifier],
     period |-> [end_date |-> Isoformat(a.period_end),
                 start_date |-> IF a.period_start # None
                                THEN Some(Isoformat(a.period_start[1]))
                                ELSE None],
     is_consolidated |-> a.is_consolidated,
     dimensions |-> IF Truthy(a.dimensions) THEN a.dimensions ELSE None]

\* The reporting entities of the calls.
Entities == {[name |-> <<"A">>, identifier |-> <<"1">>],
             [name |-> <<"B">>, identifier |-> <<"2">>]}

Date(y, m, d) == [year |-> y, month |-> m, day |-> d]

\* The period ends and the period starts of the calls.
EndDates == {Date(2023, 12, 31), Date(2024, 6, 30)}

StartDates == {Date(2023, 1, 1)}

\* Dimension names ("B" sorts before "a") and values ("b_c-b" holds both
\* separators of the identifier).
DimNames == {<<"a">>, <<"c">>, <<"B">>}

DimValues == {<<"b">>, <<"b", "_", "c", "-", "b">>}

\* {"segment": "retail", "region": "apac"}
SegmentRegion ==
    <<[key |-> <<"s", "e", "g", "m", "e", "n", "t">>,
       value |-> <<"r", "e", "t", "a", "i", "l">>],
      [key |-> <<"r", "e", "g", "i", "o", "n">>,
       value |-> <<"a", "p", "a", "c">>]>>

\* The dimension mappings of the calls, in every insertion order.
DimMappings ==
    {d \in SeqsUpTo([key : DimNames, value : DimValues], MaxDims) : DistinctKeys(d)}
        \cup {SegmentRegion}

ContextArgs ==
    {[entity_name |-> e.name, entity_identifier |-> e.identifier,
      period_end |-> pe, period_start |-> ps, is_consolidated |-> c,
      dimensions |-> dm] :
        e \in Entities, pe \in EndDates,
        ps \in {None} \cup {Some(d) : d \in StartDates},
        c \in BOOLEAN,
        dm \in {None} \cup {Some(m) : m \in DimMappings}}

\* The context of a call that does not read it.
NoDeps == [field_tags |-> <<>>, statement_tags |-> <<>>, mandatory_fields |-> <<>>]

InitContext ==
    /\ pc = "call"
    /\ op = "create_context_info"
    /\ deps = NoDeps
    /\ args \in ContextArgs
    /\ ret = NoValue
    /\ prior = NoValue

CreateContextInfo ==
    /\ pc = "call"
    /\ op = "create_context_info"
    /\ ret' = create_context_info(args)
    /\ pc' = "return"
    /\ UNCHANGED <<op, deps, args, prior>>

\* A second call, of a caller that keeps what the first call returned.
CreateContextInfoAgain ==
    /\ pc = "return"
    /\ op = "create_context_info"
    /\ prior = NoValue
    /\ \E a \in ContextArgs :
           /\ args' = a
           /\ ret' = create_context_info(a)
    /\ prior' = [args |-> args, ret |-> ret]
    /\ UNCHANGED <<pc, op, deps>>

NextContext == CreateContextInfo \/ CreateContextInfoAgain

SpecContext == InitContext /\ [][NextContext]_vars

\* Two calls of create_context_info have returned.
TwoContexts == op = "create_context_info" /\ prior # NoValue

\* Two dimension arguments with the same contents, in any insertion order.
SameDimensions(d, e) ==
    /\ (d = None) = (e = None)
    /\ d # None => {d[1][i] : i \in 1..Len(d[1])} = {e[1][i] : i \in 1..Len(e[1])}

\* Two argument lists that agree on all but the named arguments.
SameEntity(a, b) ==
    a.entity_name = b.entity_name /\ a.entity_identifier = b.entity_identifier

SamePeriod(a, b) == a.period_end = b.period_end /\ a.period_start = b.period_start

\* Two dimension mappings with the same names that differ in the value of
\* exactly one name.
OneValueDiffers(d, e) ==
    /\ d # None /\ e # None
    /\ {d[1][i].key : i \in 1..Len(d[1])} = {e[1][i].key : i \in 1..Len(e[1])}
    /\ Cardinality({i \in 1..Len(d[1]) :
                       \E j \in 1..Len(e[1]) :
                           /\ e[1][j].key = d[1][i].key
                           /\ e[1][j].value # d[1][i].value}) = 1

\* C3: identical arguments (dimension mappings with the same contents in any
\* insertion order) give identical identifiers; two calls that differ only in
\* the presence of period_start, only in is_consolidated, or only in the value
\* of one dimension give different identifiers.
C3_Determinism ==
    TwoContexts =>
        LET a == prior.args
            b == args
        IN  /\ (/\ SameEntity(a, b) /\ SamePeriod(a, b)
                /\ a.is_consolidated = b.is_consolidated
                /\ SameDimensions(a.dimensions, b.dimensions))
                   => prior.ret.id = ret.id
            /\ (/\ SameEntity(a, b) /\ a.period_end = b.period_end
                /\ (a.period_start = None) # (b.period_start = None)
                /\ a.is_consolidated = b.is_consolidated
                /\ SameDimensions(a.dimensions, b.dimensions))
                   => prior.ret.id # ret.id
            /\ (/\ SameEntity(a, b) /\ SamePeriod(a, b)
                /\ a.is_consolidated # b.is_consolidated
                /\ SameDimensions(a.dimensions, b.dimensions))
                   => prior.ret.id # ret.id
            /\ (/\ SameEntity(a, b) /\ SamePeriod(a, b)
                /\ a.is_consolidated = b.is_consolidated
                /\ OneValueDiffers(a.dimensions, b.dimensions))
                   => prior.ret.id # ret.id

\* C3's case: the same two dimensions inserted in the two orders.
C3_Witness ==
    /\ TwoContexts
    /\ SameEntity(prior.args, args) /\ SamePeriod(prior.args, args)
    /\ prior.args.is_consolidated = args.is_consolidated
    /\ SameDimensions(prior.args.dimensions, args.dimensions)
    /\ prior.args.dimensions # args.dimensions
    /\ prior.ret.id = ret.id

\* The sequence of characters of the identifier the format prescribes:
\* "ctx_" P "_" S, and "_" D for a non-empty mapping, D listing name "-" value
\* by ascending name.
FormatId(a) ==
    LET ymd(d) == Padded(d.year, 4) \o Padded(d.month, 2) \o Padded(d.day, 2)
        P == IF a.period_start = None
             THEN <<"i">> \o ymd(a.period_end)
             ELSE <<"d">> \o ymd(a.period_start[1]) \o <<"t", "o">> \o ymd(a.period_end)
        S == IF a.is_consolidated THEN <<"c">> ELSE <<"s">>
        items == IF a.dimensions = None THEN <<>> ELSE a.dimensions[1]
        n == Len(items)
        order == CHOOSE f \in [1..n -> 1..n] :
                     \A i, j \in 1..n : i < j => StrLess(items[f[i]].key, items[f[j]].key)
        part(i) == items[order[i]].key \o <<"-">> \o items[order[i]].value
        D == Join(<<"_">>, [i \in 1..n |-> part(i)])
    IN  <<"c", "t", "x", "_">> \o P \o <<"_">> \o S
            \o (IF n > 0 THEN <<"_">> \o D ELSE <<>>)

Example1 ==
    <<"c", "t", "x", "_", "i", "2", "0", "2", "3", "1", "2", "3", "1", "_", "s">>

Example2 ==
    <<"c", "t", "x", "_", "d", "2", "0", "2", "3", "0", "1", "0", "1", "t", "o",
      "2", "0", "2", "3", "1", "2", "3", "1", "_", "c">>

Example3 ==
    Example2 \o <<"_", "r", "e", "g", "i", "o", "n", "-", "a", "p", "a", "c",
                  "_", "s", "e", "g", "m", "e", "n", "t", "-", "r", "e", "t", "a", "i", "l">>

\* C4: the identifier has the prescribed format, for all inputs, and the three
\* examples give ctx_i20231231_s, ctx_d20230101to20231231_c and
\* ctx_d20230101to20231231_c_region-apac_segment-retail.
C4_Format ==
    (pc = "return" /\ op = "create_context_info") =>
        /\ ret.id = FormatId(args)
        /\ (/\ args.period_end = Date(2023, 12, 31) /\ args.period_start = None
            /\ ~args.is_consolidated /\ args.dimensions = None)
               => ret.id = Example1
        /\ (/\ args.period_end = Date(2023, 12, 31)
            /\ args.period_start = Some(Date(2023, 1, 1))
            /\ args.is_consolidated /\ args.dimensions = None)
               => ret.id = Example2
        /\ (/\ args.period_end = Date(2023, 12, 31)
            /\ args.period_start = Some(Date(2023, 1, 1))
            /\ args.is_consolidated /\ args.dimensions = Some(SegmentRegion))
               => ret.id = Example3

\* C4's case: a duration context with dimensions given out of name order.
C4_Witness ==
    /\ pc = "return" /\ op = "create_context_info"
    /\ args.period_start # None
    /\ args.dimensions = Some(SegmentRegion)
    /\ args.is_consolidated
    /\ ret.id = Example3

\* C5: two calls whose inputs differ in entity, in period, in is_consolidated
\* or in the dimension mapping return different identifiers.
C5_CollisionResistant ==
    TwoContexts =>
        ((\/ ~SameEntity(prior.args, args)
          \/ ~SamePeriod(prior.args, args)
          \/ prior.args.is_consolidated # args.is_consolidated
          \/ ~SameDimensions(IF Truthy(prior.args.dimensions)
                             THEN prior.args.dimensions ELSE None,
                             IF Truthy(args.dimensions) THEN args.dimensions ELSE None))
             => prior.ret.id # ret.id)

(***************************************************************************)
(* tag_statement_section                                                   *)
(***************************************************************************)

\* The key "meta_tags" of a tagged section.
MetaTagsKey == <<"m", "e", "t", "a", "_", "t", "a", "g", "s">>

\* isinstance(element_value, (list, dict))
IsListOrDict(v) == "list" \in DOMAIN v \/ "dict" \in DOMAIN v

\* The section-level tags: those whose element name contains section_name,
\* both lowered, in the order of statement_tags.
MetaTags(statement_tags, section_name) ==
    TagDicts(SelectSeq(statement_tags,
                       LAMBDA tag : Contains(Lower(tag.element_name),
                                             Lower(section_name))))

\* The tags of one element of a section: those of its exact key, or none.
ElementTags(field_tags, element_name) ==
    IF HasKey(field_tags, element_name)
    THEN Entry(field_tags, element_name).tags
    ELSE <<>>

\* The loop over section_data.items(), from the items that are left.
RECURSIVE TagElements(_, _, _)
TagElements(context, items, tagged_section) ==
    IF items = <<>> THEN tagged_section
    ELSE LET element_name == items[1].key
             element_value == items[1].value
         IN  IF IsListOrDict(element_value)
             THEN TagElements(context, Tail(items), tagged_section)
             ELSE TagElements(context, Tail(items),
                      SetItem(tagged_section,
                              [key |-> element_name,
                               value |-> PyRec([value |-> element_value,
                                              tags |-> TagDicts(ElementTags(
                                                  context.field_tags, element_name))])]))

\* tag_statement_section(context, section_name, section_data)
tag_statement_section(context, section_name, section_data) ==
    TagElements(context, section_data,
                <<[key |-> MetaTagsKey,
                   value |-> PyList(MetaTags(context.statement_tags, section_name))]>>)

\* The keys of field_tags in the section tagger's calls: "a", "ab".
SectionTagKeys == {<<"a">>, <<"a", "b">>}

\* The section names: "a", "A", "b".
SectionNames == {<<"a">>, <<"A">>, <<"b">>}

\* The field names of section_data: "a", "A", "meta_tags".
SectionFields == {<<"a">>, <<"A">>, MetaTagsKey}

\* The values of section_data: scalars, a list, a nested mapping.
SectionValues ==
    Scalars \cup {PyList(<<PyInt(1)>>), PyDict(<<[key |-> <<"a">>, value |-> PyInt(1)]>>)}

\* section_data
SectionDatas ==
    {d \in SeqsUpTo([key : SectionFields, value : SectionValues], MaxFields) :
        DistinctKeys(d)}

InitSection ==
    /\ pc = "call"
    /\ op = "tag_statement_section"
    /\ deps \in [field_tags : FieldTagIndexes(SectionTagKeys),
                 statement_tags : SeqsUpTo({TagAb, TagA, TagB}, MaxStatementTags),
                 mandatory_fields : {<<>>}]
    /\ args \in [section_name : SectionNames, section_data : SectionDatas]
    /\ ret = NoValue
    /\ prior = NoValue

TagStatementSection ==
    /\ pc = "call"
    /\ op = "tag_statement_section"
    /\ ret' = tag_statement_section(deps, args.section_name, args.section_data)
    /\ pc' = "return"
    /\ UNCHANGED <<op, deps, args, prior>>

SpecSection == InitSection /\ [][TagStatementSection]_vars

\* The call of tag_statement_section has returned.
SectionReturned == pc = "return" /\ op = "tag_statement_section"

\* A value that is a nested mapping or a sequence.
Nested(v) == "list" \in DOMAIN v \/ "dict" \in DOMAIN v

\* C6: a key of section_data whose value is a nested mapping or a sequence is
\* no key of the tagged section; a key whose value is a scalar is one, and
\* carries that value.
C6_SkipNested ==
    SectionReturned =>
        \A i \in 1..Len(args.section_data) :
            LET e == args.section_data[i]
            IN  IF Nested(e.value)
                THEN \A k \in 1..Len(ret) : ret[k].key # e.key
                ELSE \E k \in 1..Len(ret) :
                         /\ ret[k].key = e.key
                         /\ "rec" \in DOMAIN ret[k].value
                         /\ ret[k].value.rec.value = e.value

\* C7: the tags the section tagger puts on a scalar field are the tags the
\* resolver returns for that field name and registry.
C7_UsesResolver ==
    SectionReturned =>
        \A i \in 1..Len(args.section_data) :
            LET e == args.section_data[i]
            IN  ~Nested(e.value) =>
                    \E k \in 1..Len(ret) :
                        /\ ret[k].key = e.key
                        /\ "rec" \in DOMAIN ret[k].value
                        /\ ret[k].value.rec.tags =
                               apply_tags_to_element(deps, e.key, e.value).tags

\* C10: the meta_tags entry of the tagged section is the list, in catalog
\* order, of the statement tags whose element name contains section_name
\* case-insensitively, whatever section_data holds.
C10_MetaTags ==
    SectionReturned =>
        \E k \in 1..Len(ret) :
            /\ ret[k].key = MetaTagsKey
            /\ ret[k].value =
                   PyList(LET hits == SelectSeq(deps.statement_tags,
                                       LAMBDA tag :
                                           \E off \in 0..Len(tag.element_name) :
                                               /\ off + Len(args.section_name)
                                                      <= Len(tag.element_name)
                                               /\ SubSeq(Lower(tag.element_name), off + 1,
                                                         off + Len(args.section_name))
                                                      = Lower(args.section_name))
                        IN  [j \in 1..Len(hits) |-> TagDict(hits[j])])

(***************************************************************************)
(* validate_tagged_data                                                    *)
(***************************************************************************)

\* The inner search: some section is a dict and holds field_name as a key.
FieldFound(tagged_data, field_name) ==
    \E i \in 1..Len(tagged_data) :
        /\ "dict" \in DOMAIN tagged_data[i].value
        /\ HasKey(tagged_data[i].value.dict, field_name)

\* A check of the mandatory fields that does not read the flag.
IsMandatoryAlways(entry) == TRUE

\* if is_mandatory
IsMandatory(entry) == entry.flag

\* The first loop: one issue for each mandatory field that is not found, in
\* the order of mandatory_fields.
MissingMandatory(mandatory_fields, tagged_data) ==
    LET missing == SelectSeq(mandatory_fields,
                             LAMBDA e : IsMandatory(e) /\ ~FieldFound(tagged_data, e.key))
    IN  [i \in 1..Len(missing) |->
            [type |-> "missing_mandatory_field",
             field |-> missing[i].key,
             message |-> Message("Mandatory field '{}' is missing from the tagged data",
                                 missing[i].key)]]

\* A tag check that does not look at the tag list.
UntaggedAnyTags(field_data) ==
    "rec" \in DOMAIN field_data /\ "tags" \in DOMAIN field_data.rec

\* isinstance(field_data, dict) and "tags" in field_data and not field_data["tags"]
Untagged(field_data) ==
    /\ "rec" \in DOMAIN field_data
    /\ "tags" \in DOMAIN field_data.rec
    /\ field_data.rec.tags = <<>>

\* The inner loop of the second loop, over the fields of one section.
SectionMissingTags(section_name, section_data) ==
    LET untagged == SelectSeq(section_data, LAMBDA e : Untagged(e.value))
    IN  [i \in 1..Len(untagged) |->
            [type |-> "missing_tags",
             section |-> section_name,
             field |-> untagged[i].key,
             message |-> Message("No tags applied to field '{}' in section '{}'",
                                 <<untagged[i].key, section_name>>)]]

\* The second loop, over the sections that are left.
RECURSIVE MissingTags(_)
MissingTags(sections) ==
    IF sections = <<>> THEN <<>>
    ELSE (IF "dict" \in DOMAIN sections[1].value
          THEN SectionMissingTags(sections[1].key, sections[1].value.dict)
          ELSE <<>>)
         \o MissingTags(Tail(sections))

\* validate_tagged_data(context, tagged_data)
validate_tagged_data(context, tagged_data) ==
    MissingMandatory(context.mandatory_fields, tagged_data) \o MissingTags(tagged_data)

\* The names of the mandatory index in the validator's calls; "c" is a field
\* of no document.
ValidatorMandatoryNames == {<<"a">>, <<"b">>, <<"c">>}

\* The field names of a document's sections.
DocumentFields == {<<"a">>, <<"b">>}

\* What a section holds under a field name: a tagged element without tags, a
\* tagged element with tags, a mapping without a "tags" key, a list (as the
\* section's meta_tags are).
FieldDatas ==
    {PyRec([value |-> PyInt(1), tags |-> <<>>]),
     PyRec([value |-> PyInt(1), tags |-> <<TagDict(TagAb)>>]),
     PyRec([value |-> PyInt(1)]),
     PyList(<<>>)}

\* The sections of a document: mappings of fields, and a value that is no mapping.
Sections ==
    {PyDict(d) : d \in {e \in SeqsUpTo([key : DocumentFields, value : FieldDatas],
                                        MaxFields) : DistinctKeys(e)}}
        \cup {PyList(<<>>)}

\* The section names of a document: "s", "t".
DocumentSections == {<<"s">>, <<"t">>}

\* tagged_data
Documents ==
    {d \in SeqsUpTo([key : DocumentSections, value : Sections], MaxSections) :
        DistinctKeys(d)}

InitValidate ==
    /\ pc = "call"
    /\ op = "validate_tagged_data"
    /\ deps \in [field_tags : {<<>>},
                 statement_tags : {<<>>},
                 mandatory_fields : MandatoryIndexes(ValidatorMandatoryNames)]
    /\ args \in [tagged_data : Documents]
    /\ ret = NoValue
    /\ prior = NoValue

ValidateTaggedData ==
    /\ pc = "call"
    /\ op = "validate_tagged_data"
    /\ ret' = validate_tagged_data(deps, args.tagged_data)
    /\ pc' = "return"
    /\ UNCHANGED <<op, deps, args, prior>>

SpecValidate == InitValidate /\ [][ValidateTaggedData]_vars

\* The call of validate_tagged_data has returned.
ValidateReturned == pc = "return" /\ op = "validate_tagged_data"

\* f is flagged mandatory, with the flag true.
FlaggedMandatory(f) ==
    \E i \in 1..Len(deps.mandatory_fields) :
        deps.mandatory_fields[i].key = f /\ deps.mandatory_fields[i].flag

\* f is a key of some section of the document.
InSomeSection(f) ==
    \E i \in 1..Len(args.tagged_data) :
        /\ "dict" \in DOMAIN args.tagged_data[i].value
        /\ \E j \in 1..Len(args.tagged_data[i].value.dict) :
               args.tagged_data[i].value.dict[j].key = f

\* C8: a missing_mandatory_field issue names f if and only if f is flagged
\* mandatory and is a key of no section.
C8_MandatoryCompleteness ==
    ValidateReturned =>
        \A f \in ValidatorMandatoryNames \cup DocumentFields
                    \cup {ret[k].field : k \in 1..Len(ret)} :
            (\E k \in 1..Len(ret) :
                 ret[k].type = "missing_mandatory_field" /\ ret[k].field = f)
                <=> (FlaggedMandatory(f) /\ ~InSomeSection(f))

\* C8's case: a mandatory field that is in no section of a document with
\* fields, beside a field flagged false that is in none either.
C8_Witness ==
    /\ ValidateReturned
    /\ \E f \in DocumentFields : InSomeSection(f)
    /\ \E f \in ValidatorMandatoryNames : FlaggedMandatory(f) /\ ~InSomeSection(f)
    /\ \E i \in 1..Len(deps.mandatory_fields) :
           /\ ~deps.mandatory_fields[i].flag
           /\ ~InSomeSection(deps.mandatory_fields[i].key)
    /\ \E k \in 1..Len(ret) : ret[k].type = "missing_mandatory_field"

\* The missing_tags issues that name section s and field f.
MissingTagsIssues(s, f) ==
    {k \in 1..Len(ret) :
        ret[k].type = "missing_tags" /\ ret[k].section = s /\ ret[k].field = f}

\* The (section, field) pairs of the document whose tagged element has an
\* empty tag list.
EmptyTagged ==
    {<<s, f>> \in DocumentSections \X DocumentFields :
        \E i \in 1..Len(args.tagged_data) :
            /\ args.tagged_data[i].key = s
            /\ "dict" \in DOMAIN args.tagged_data[i].value
            /\ \E j \in 1..Len(args.tagged_data[i].value.dict) :
                   LET e == args.tagged_data[i].value.dict[j]
                   IN  /\ e.key = f
                       /\ "rec" \in DOMAIN e.value
                       /\ "tags" \in DOMAIN e.value.rec
                       /\ e.value.rec.tags = <<>>}
\* C9: the issues hold exactly one missing_tags issue for each (section,
\* field) pair whose tagged element has an empty tag list, naming that section
\* and field, and none for any other field; a document with one such field
\* yields one missing_tags issue.
C9_TagCoverage ==
    ValidateReturned =>
        /\ \A s \in DocumentSections, f \in DocumentFields :
               Cardinality(MissingTagsIssues(s, f)) =
                   IF <<s, f>> \in EmptyTagged THEN 1 ELSE 0
        /\ \A k \in 1..Len(ret) :
               ret[k].type = "missing_tags" =>
                   <<ret[k].section, ret[k].field>> \in EmptyTagged
        /\ Cardinality(EmptyTagged) = 1 =>
               Cardinality({k \in 1..Len(ret) : ret[k].type = "missing_tags"}) = 1

\* C9's case: one field without tags, beside a field with tags and a second
\* section.
C9_Witness ==
    /\ ValidateReturned
    /\ Cardinality(EmptyTagged) = 1
    /\ Len(args.tagged_data) = 2
    /\ \E i \in 1..2 :
           /\ "dict" \in DOMAIN args.tagged_data[i].value
           /\ \E j \in 1..Len(args.tagged_data[i].value.dict) :
                  LET v == args.tagged_data[i].value.dict[j].value
                  IN  /\ "rec" \in DOMAIN v
                      /\ "tags" \in DOMAIN v.rec
                      /\ v.rec.tags # <<>>
    /\ \E k \in 1..Len(ret) : ret[k].type = "missing_tags"

(***************************************************************************)
(* The tools together: one call of any of them, and for                    *)
(* create_context_info a second call.                                      *)
(***************************************************************************)
Init == InitResolve \/ InitContext \/ InitSection \/ InitValidate

Next ==
    \/ ApplyTagsToElement
    \/ CreateContextInfo
    \/ CreateContextInfoAgain
    \/ TagStatementSection
    \/ ValidateTaggedData

Spec == Init /\ [][Next]_vars

====
